---- MODULE Spec2Model ----
(***************************************************************************)
(* asher: a sampler of host resource counters (src/src/main.rs).           *)
(*                                                                         *)
(* main() populates one process-wide sysinfo System, then either prints    *)
(* one JSON snapshot (no subcommand) or runs loop_command(interval):       *)
(* lock, sleep, refresh_all, SysStats::from, println!, forever.            *)
(*                                                                         *)
(* The probe layer (sysinfo) is the environment: every refresh_all() may   *)
(* leave any reading of the bounded domain Probes in the System.           *)
(* u64 arithmetic is modelled modulo U64Modulus, a scaled-down 2^64 (TLC's *)
(* integers are 32 bits wide); readings stay far below it, as real byte    *)
(* counters stay far below 2^64.                                           *)
(***************************************************************************)
EXTENDS Integers, Sequences, FiniteSets, TLC

VARIABLES
    pc,              \* position of the main thread
    command,         \* Args.command: "None" or "Loop"
    interval,        \* SubCommand::Loop.interval, in seconds
    overflow_checks, \* build: are integer overflow checks compiled in (debug) or not (release)
    target_os,       \* build: the cfg(target_os) the binary was compiled for
    system,          \* the System inside SYSTEM (the probe state)
    stats,           \* the local `stats` of main / loop_command
    stdout,          \* standard output: number of lines written and the last line
    sleeps,          \* completed thread::sleep calls
    refreshes,       \* completed refresh_all calls
    net_monotone,    \* history: the last refresh_all kept every interface and lowered no cumulative counter
    panic,           \* the panic that ended the process, or "none"
    exit_code        \* the exit status once pc = "exit", else -1

vars == <<pc, command, interval, overflow_checks, target_os, system, stats, stdout,
          sleeps, refreshes, net_monotone, panic, exit_code>>

---------------------------------------------------------------------------
\* Bounds of the model.

\* The loop is followed for this many written lines.
MaxLines == 2

\* A byte counter read from the probe layer is 0 or MaxBytes.
MaxBytes == 1

\* u64 arithmetic wraps at this modulus (stands for 2^64).
U64Modulus == 16

---------------------------------------------------------------------------
\* Integer and float helpers.

RECURSIVE Sum(_)
Sum(s) == IF s = <<>> THEN 0 ELSE Head(s) + Sum(Tail(s))

\* a - b in u64 when overflow checks are off: two's complement wrap.
WrappingSub(a, b) == (a - b) % U64Modulus

\* a sequence of u64 additions (+=, Iterator::sum) when overflow checks are off.
WrappingSum(s) == Sum(s) % U64Modulus

\* whether a sequence of u64 additions of non-negative values overflows.
SumOverflows(s) == Sum(s) >= U64Modulus

\* f32 values: a finite number (val, in percent), NaN or an infinity.
F32(v) == [kind |-> "num", val |-> v]
NaN == [kind |-> "nan", val |-> 0]
Inf == [kind |-> "inf", val |-> 0]

\* sum / n in f32: 0.0 / 0.0 is NaN, x / 0.0 is infinite. CpuUsages and
\* CoreCounts are chosen so that every finite quotient is exact.
F32Div(sum, n) ==
    IF n = 0 THEN (IF sum = 0 THEN NaN ELSE Inf) ELSE F32(sum \div n)

---------------------------------------------------------------------------
\* The probe layer's readings (the inputs of SysStats::from).

ByteCounts == {0, MaxBytes}
CpuUsages == {0, 50, 100}
CoreCounts == {0, 1, 2}
DiskNames == <<"sda1", "sdb1">>
MountPoints == <<"/", "/home">>
IfNames == <<"lo", "eth0">>

\* sysinfo's memory readings are copied verbatim; one reading is enough.
BaseMem == [total |-> MaxBytes, used |-> MaxBytes, free |-> 0, available |-> 0,
            total_swap |-> MaxBytes, used_swap |-> 0, free_swap |-> MaxBytes]

\* value.cpus(): the logical cores in index order, each with its cpu_usage().
CpuLists == UNION {[1..n -> CpuUsages] : n \in CoreCounts}

\* value.disks(): the disks in probe order.
DiskAt(i, t, a) ==
    [name |-> DiskNames[i], mount_point |-> MountPoints[i],
     total_space |-> t, available_space |-> a]
DiskLists ==
    UNION {{[i \in 1..n |-> DiskAt(i, t[i], a[i])] :
              t \in [1..n -> ByteCounts], a \in [1..n -> ByteCounts]} :
           n \in 0..Len(DiskNames)}

\* value.processes(): the processes in the enumerator's order, each with its disk_usage().
ProcessLists ==
    UNION {[1..n -> [read_bytes : ByteCounts, written_bytes : ByteCounts]] :
           n \in 0..2}

\* value.networks(): the interfaces in the enumerator's order. A delta never
\* exceeds the cumulative counter it is a difference of.
NetReadings ==
    {r \in [total_transmitted : ByteCounts, transmitted : ByteCounts,
            total_received : ByteCounts, received : ByteCounts] :
        r.transmitted <= r.total_transmitted /\ r.received <= r.total_received}
Iface(nm, r) ==
    [name |-> nm, total_transmitted |-> r.total_transmitted, transmitted |-> r.transmitted,
     total_received |-> r.total_received, received |-> r.received]
NetLists ==
    {<<>>}
    \cup {<<Iface(IfNames[i], r)>> : i \in 1..Len(IfNames), r \in NetReadings}
    \cup {<<Iface(IfNames[1], r1), Iface(IfNames[2], r2)>> : r1 \in NetReadings, r2 \in NetReadings}

\* A typical quiet host.
BaseCpus == <<50>>
BaseDisks == <<DiskAt(1, MaxBytes, 0)>>
BaseProcesses == <<[read_bytes |-> MaxBytes, written_bytes |-> 0]>>
BaseNetworks == <<Iface(IfNames[1], [total_transmitted |-> MaxBytes, transmitted |-> 0,
                                     total_received |-> MaxBytes, received |-> 0])>>

Probe(c, d, p, n) ==
    [mem |-> BaseMem, cpus |-> c, disks |-> d, processes |-> p, networks |-> n]

\* What System::new_all() and refresh_all() can leave in the System: the base
\* host with the readings of one category replaced.
Probes ==
    {Probe(c, BaseDisks, BaseProcesses, BaseNetworks) : c \in CpuLists}
    \cup {Probe(BaseCpus, d, BaseProcesses, BaseNetworks) : d \in DiskLists}
    \cup {Probe(BaseCpus, BaseDisks, p, BaseNetworks) : p \in ProcessLists}
    \cup {Probe(BaseCpus, BaseDisks, BaseProcesses, n) : n \in NetLists}

NoSystem == [unset |-> TRUE]
NoStats == [unset |-> TRUE]

---------------------------------------------------------------------------
\* SysStats::from(&System): the aggregation.

TargetOses == {"linux", "windows", "freebsd"}

\* cfg(any(target_os = "windows", target_os = "freebsd"))
FirstProcessOnly == target_os \in {"windows", "freebsd"}

\* total_cpu_usage: the f32 sum of cpu_usage() divided by cpus().len() as f32.
TotalCpuUsage(s) == F32Div(Sum(s.cpus), Len(s.cpus))

MemOf(s) ==
    [total |-> s.mem.total, used |-> s.mem.used, free |-> s.mem.free,
     available |-> s.mem.available, total_swap |-> s.mem.total_swap,
     used_swap |-> s.mem.used_swap, free_swap |-> s.mem.free_swap]

CpuOf(s) ==
    [usage |-> TotalCpuUsage(s),
     cpus |-> [i \in 1..Len(s.cpus) |-> [usage |-> F32(s.cpus[i])]]]

\* used: disk.total_space() - disk.available_space(), in u64.
DiskUsed(d) == WrappingSub(d.total_space, d.available_space)

DiskPart(d) ==
    [name |-> d.name, mount_point |-> d.mount_point,
     total |-> d.total_space, free |-> d.available_space, used |-> DiskUsed(d)]

DiskParts(s) == [i \in 1..Len(s.disks) |-> DiskPart(s.disks[i])]

PartTotals(parts) == [i \in 1..Len(parts) |-> parts[i].total]
PartFrees(parts) == [i \in 1..Len(parts) |-> parts[i].free]
PartUseds(parts) == [i \in 1..Len(parts) |-> parts[i].used]

ReadBytes(s) == [i \in 1..Len(s.processes) |-> s.processes[i].read_bytes]
WrittenBytes(s) == [i \in 1..Len(s.processes) |-> s.processes[i].written_bytes]

\* Mutant of SampledIo: every process is added on every target.
SampledIoAllTargets(bytes) == bytes

\* The processes whose disk_usage() is added to disks.read / disks.write:
\* the first one the enumerator yields on Windows and FreeBSD, all elsewhere.
SampledIo(bytes) ==
    IF FirstProcessOnly
    THEN (IF bytes = <<>> THEN <<>> ELSE <<Head(bytes)>>)
    ELSE bytes

DisksOf(s) ==
    LET parts == DiskParts(s) IN
    [total |-> WrappingSum(PartTotals(parts)),
     free |-> WrappingSum(PartFrees(parts)),
     used |-> WrappingSum(PartUseds(parts)),
     read |-> WrappingSum(SampledIo(ReadBytes(s))),
     write |-> WrappingSum(SampledIo(WrittenBytes(s))),
     disks |-> parts]

\* Mutant of TotalTransmitted: the per-interval delta is read instead of the cumulative counter.
TotalTransmittedAsDelta(s) == [i \in 1..Len(s.networks) |-> s.networks[i].transmitted]

TotalTransmitted(s) == [i \in 1..Len(s.networks) |-> s.networks[i].total_transmitted]
TotalReceived(s) == [i \in 1..Len(s.networks) |-> s.networks[i].total_received]
Transmitted(s) == [i \in 1..Len(s.networks) |-> s.networks[i].transmitted]
Received(s) == [i \in 1..Len(s.networks) |-> s.networks[i].received]

\* Mutant of NetInterfaces: interfaces without traffic are left out.
NetInterfacesActiveOnly(s) ==
    LET all == [i \in 1..Len(s.networks) |->
                   [name |-> s.networks[i].name,
                    up |-> s.networks[i].transmitted,
                    down |-> s.networks[i].received]]
        Active(x) == x.up + x.down > 0
    IN SelectSeq(all, Active)

NetInterfaces(s) ==
    [i \in 1..Len(s.networks) |->
        [name |-> s.networks[i].name,
         up |-> s.networks[i].transmitted,
         down |-> s.networks[i].received]]

NetOf(s) ==
    [total_up |-> WrappingSum(TotalTransmitted(s)),
     total_down |-> WrappingSum(TotalReceived(s)),
     up |-> WrappingSum(Transmitted(s)),
     down |-> WrappingSum(Received(s)),
     interfaces |-> NetInterfaces(s)]

From(s) == [mem |-> MemOf(s), cpu |-> CpuOf(s), disks |-> DisksOf(s), net |-> NetOf(s)]

\* Whether some u64 operation of SysStats::from overflows on s: such an
\* operation panics when overflow checks are compiled in and wraps otherwise.
FromOverflows(s) ==
    \/ \E i \in 1..Len(s.disks) : s.disks[i].available_space > s.disks[i].total_space
    \/ SumOverflows(PartTotals(DiskParts(s)))
    \/ SumOverflows(PartFrees(DiskParts(s)))
    \/ SumOverflows(PartUseds(DiskParts(s)))
    \/ SumOverflows(SampledIo(ReadBytes(s)))
    \/ SumOverflows(SampledIo(WrittenBytes(s)))
    \/ SumOverflows(TotalTransmitted(s))
    \/ SumOverflows(TotalReceived(s))
    \/ SumOverflows(Transmitted(s))
    \/ SumOverflows(Received(s))

FromPanics(s) == overflow_checks /\ FromOverflows(s)

\* serde_json::to_string(&stats): the same tree; a finite f32 is written as a
\* number, a NaN or an infinity as null. Never fails on a SysStats.
JsonNull == [kind |-> "null", val |-> 0]
JsonF32(x) == IF x.kind = "num" THEN x ELSE JsonNull
ToJson(st) ==
    [mem |-> st.mem,
     cpu |-> [usage |-> JsonF32(st.cpu.usage),
              cpus |-> [i \in 1..Len(st.cpu.cpus) |-> [usage |-> JsonF32(st.cpu.cpus[i].usage)]]],
     disks |-> st.disks,
     net |-> st.net]

---------------------------------------------------------------------------
\* The driver: main and loop_command.

Intervals == {-1, 0, 1}

\* Duration::from_secs_f32 panics on a negative (or non-finite) number of seconds.
FromSecsPanics(secs) == secs < 0

\* Every interface of s is still in t and none of its cumulative counters is lower.
NetMonotone(s, t) ==
    \A i \in 1..Len(s.networks) :
        \E j \in 1..Len(t.networks) :
            /\ t.networks[j].name = s.networks[i].name
            /\ t.networks[j].total_transmitted >= s.networks[i].total_transmitted
            /\ t.networks[j].total_received >= s.networks[i].total_received

NoLine == [unset |-> TRUE]

Init ==
    /\ pc = "main"
    /\ command \in {"None", "Loop"}
    /\ interval \in Intervals
    /\ overflow_checks \in BOOLEAN
    /\ target_os \in TargetOses
    /\ system = NoSystem
    /\ stats = NoStats
    /\ stdout = [lines |-> 0, last |-> NoLine]
    /\ sleeps = 0
    /\ refreshes = 0
    /\ net_monotone = FALSE
    /\ panic = "none"
    /\ exit_code = -1

\* A panic unwinds main: the process exits with status 101.
Panic(msg) ==
    /\ pc' = "exit"
    /\ panic' = msg
    /\ exit_code' = 101

\* main: Args::parse() has run; SYSTEM is initialised with System::new_all()
\* and the subcommand is matched.
Main ==
    /\ pc = "main"
    /\ system' \in Probes
    /\ pc' = IF command = "Loop" THEN "loop_lock" ELSE "oneshot_refresh"
    /\ UNCHANGED <<command, interval, overflow_checks, target_os, stats, stdout,
                   sleeps, refreshes, net_monotone, panic, exit_code>>

\* system.refresh_all(): the probe layer re-reads every category.
RefreshAll(next) ==
    /\ system' \in Probes
    /\ net_monotone' = NetMonotone(system, system')
    /\ refreshes' = refreshes + 1
    /\ pc' = next
    /\ UNCHANGED <<command, interval, overflow_checks, target_os, stats, stdout,
                   sleeps, panic, exit_code>>

\* let stats = SysStats::from(&*system);
Snapshot(next) ==
    IF FromPanics(system)
    THEN /\ Panic("overflow")
         /\ UNCHANGED <<command, interval, overflow_checks, target_os, system, stats,
                        stdout, sleeps, refreshes, net_monotone>>
    ELSE /\ stats' = From(system)
         /\ pc' = next
         /\ UNCHANGED <<command, interval, overflow_checks, target_os, system, stdout,
                        sleeps, refreshes, net_monotone, panic, exit_code>>

\* println!("{}", serde_json::to_string(&stats).unwrap()): one line is written
\* to standard output, or the write fails and println! panics.
Println(next, code) ==
    \E ok \in BOOLEAN :
        IF ok
        THEN /\ stdout' = [lines |-> stdout.lines + 1, last |-> ToJson(stats)]
             /\ pc' = next
             /\ exit_code' = code
             /\ UNCHANGED <<command, interval, overflow_checks, target_os, system, stats,
                            sleeps, refreshes, net_monotone, panic>>
        ELSE /\ Panic("println")
             /\ UNCHANGED <<command, interval, overflow_checks, target_os, system, stats,
                            stdout, sleeps, refreshes, net_monotone>>

\* main, no subcommand: lock, refresh_all.
OneShotRefresh ==
    /\ pc = "oneshot_refresh"
    /\ RefreshAll("oneshot_from")

OneShotFrom ==
    /\ pc = "oneshot_from"
    /\ Snapshot("oneshot_println")

\* Mutant of OneShotPrintln: a failed write is ignored and main returns normally.
OneShotPrintlnIgnoringFailure ==
    /\ pc = "oneshot_println"
    /\ \E ok \in BOOLEAN :
           /\ stdout' = IF ok THEN [lines |-> stdout.lines + 1, last |-> ToJson(stats)]
                              ELSE stdout
           /\ pc' = "exit"
           /\ exit_code' = 0
           /\ UNCHANGED <<command, interval, overflow_checks, target_os, system, stats,
                          sleeps, refreshes, net_monotone, panic>>

\* the line is printed and main returns: exit status 0.
OneShotPrintln ==
    /\ pc = "oneshot_println"
    /\ Println("exit", 0)

\* Mutant of LoopAfter: the refresh is moved before the sleep.
LoopAfterRefreshFirst(p) ==
    CASE p = "loop_lock" -> "loop_refresh"
      [] p = "loop_refresh" -> "loop_sleep"
      [] p = "loop_sleep" -> "loop_from"
      [] p = "loop_from" -> "loop_println"
      [] p = "loop_println" -> "loop_lock"

\* The order of the steps of one iteration of loop_command.
LoopAfter(p) ==
    CASE p = "loop_lock" -> "loop_sleep"
      [] p = "loop_sleep" -> "loop_refresh"
      [] p = "loop_refresh" -> "loop_from"
      [] p = "loop_from" -> "loop_println"
      [] p = "loop_println" -> "loop_lock"

\* let mut system = SYSTEM.get().unwrap().lock().unwrap();
LoopLock ==
    /\ pc = "loop_lock"
    /\ stdout.lines < MaxLines
    /\ pc' = LoopAfter(pc)
    /\ UNCHANGED <<command, interval, overflow_checks, target_os, system, stats, stdout,
                   sleeps, refreshes, net_monotone, panic, exit_code>>

\* thread::sleep(Duration::from_secs_f32(interval));
LoopSleep ==
    /\ pc = "loop_sleep"
    /\ IF FromSecsPanics(interval)
       THEN /\ Panic("from_secs_f32")
            /\ UNCHANGED <<command, interval, overflow_checks, target_os, system, stats,
                           stdout, sleeps, refreshes, net_monotone>>
       ELSE /\ sleeps' = sleeps + 1
            /\ pc' = LoopAfter(pc)
            /\ UNCHANGED <<command, interval, overflow_checks, target_os, system, stats,
                           stdout, refreshes, net_monotone, panic, exit_code>>

LoopRefresh ==
    /\ pc = "loop_refresh"
    /\ RefreshAll(LoopAfter(pc))

LoopFrom ==
    /\ pc = "loop_from"
    /\ Snapshot(LoopAfter(pc))

LoopPrintln ==
    /\ pc = "loop_println"
    /\ Println(LoopAfter(pc), -1)

Next ==
    \/ Main
    \/ OneShotRefresh
    \/ OneShotFrom
    \/ OneShotPrintln
    \/ LoopLock
    \/ LoopSleep
    \/ LoopRefresh
    \/ LoopFrom
    \/ LoopPrintln

Spec == Init /\ [][Next]_vars

---------------------------------------------------------------------------
\* Properties.

Looping == command = "Loop"
OneShot == command = "None"

\* A line has been written and the System has not been refreshed since the
\* snapshot it encodes was taken.
RecordCurrent ==
    /\ stdout.lines >= 1
    /\ \/ Looping /\ pc \in {"loop_lock", "loop_sleep", "loop_refresh"}
       \/ OneShot /\ pc = "exit"

LineUps(n) == [i \in 1..Len(n.interfaces) |-> n.interfaces[i].up]
LineDowns(n) == [i \in 1..Len(n.interfaces) |-> n.interfaces[i].down]
LineCpuUsages(c) == [i \in 1..Len(c.cpus) |-> c.cpus[i].usage.val]

\* C1: in loop mode the steps run in the order sleep, refresh, snapshot and
\* write: lines <= refreshes <= sleeps <= lines + 1 at every moment, a refresh
\* is only pending after a sleep, a snapshot is only taken or written after the
\* refresh of its iteration, and the snapshot about to be written and the line
\* last written are computed from the System as the preceding refresh left it.
C1_LoopOrder ==
    Looping =>
        /\ stdout.lines <= refreshes
        /\ refreshes <= sleeps
        /\ sleeps <= stdout.lines + 1
        /\ pc = "loop_refresh" => sleeps = refreshes + 1
        /\ pc \in {"loop_from", "loop_println"} =>
               sleeps = stdout.lines + 1 /\ refreshes = stdout.lines + 1
        /\ pc = "loop_println" => stats = From(system)
        /\ RecordCurrent => stdout.last = ToJson(From(system))

C1_Witness ==
    /\ Looping
    /\ pc = "loop_lock"
    /\ stdout.lines = 2
    /\ sleeps = 2
    /\ refreshes = 2

\* C2 (as stated): in one-shot mode the program never sleeps, never writes a
\* second line, and, once it has refreshed and computed its snapshot, ends
\* having written exactly one line and with exit status 0.
C2_OneShotAlwaysOneLineExit0 ==
    OneShot =>
        /\ sleeps = 0
        /\ stdout.lines <= 1
        /\ (pc = "exit" /\ stats # NoStats) =>
               refreshes = 1 /\ stdout.lines = 1 /\ exit_code = 0

\* C2 (amended): in one-shot mode the program never sleeps, refreshes exactly
\* once before its only snapshot, writes at most one line and ends right after
\* it; it ends with exit status 0 exactly when it has written its line, and
\* ends with a non-zero status and no line when the snapshot aborts or the
\* write fails.
C2_OneShot ==
    OneShot =>
        /\ sleeps = 0
        /\ stdout.lines <= 1
        /\ refreshes <= 1
        /\ pc \in {"oneshot_from", "oneshot_println", "exit"} => refreshes = 1
        /\ pc = "oneshot_println" => stats = From(system)
        /\ stdout.lines = 1 => pc = "exit" /\ stdout.last = ToJson(From(system))
        /\ pc = "exit" =>
               /\ exit_code = 0 <=> stdout.lines = 1
               /\ exit_code = 0 <=> panic = "none"
               /\ exit_code # 0 => panic \in {"overflow", "println"}

C2_Witness ==
    /\ OneShot
    /\ pc = "exit"
    /\ exit_code = 0
    /\ stdout.lines = 1
    /\ refreshes = 1

\* C3: in loop mode an interval that is zero or negative raises no error: the
\* sleep never ends the process.
C3_NonPositiveIntervalNoError ==
    (Looping /\ interval <= 0) => panic # "from_secs_f32"

\* C4: every disk entry of every written record has used + free = total, and
\* computing the entries never aborts the snapshot.
C4_DiskPartLaw ==
    /\ panic # "overflow"
    /\ stdout.lines >= 1 =>
           \A i \in 1..Len(stdout.last.disks.disks) :
               LET d == stdout.last.disks.disks[i] IN d.used + d.free = d.total

\* C5: in every written record disks.total, disks.free and disks.used are the
\* sums of the entries' total, free and used (0 for no entry), and the entries
\* are the probe's disks, in the probe's order.
C5_DiskSumLaw ==
    stdout.lines >= 1 =>
        LET d == stdout.last.disks IN
        /\ d.total = Sum(PartTotals(d.disks))
        /\ d.free = Sum(PartFrees(d.disks))
        /\ d.used = Sum(PartUseds(d.disks))
        /\ RecordCurrent =>
               /\ Len(d.disks) = Len(system.disks)
               /\ \A i \in 1..Len(d.disks) :
                      /\ d.disks[i].name = system.disks[i].name
                      /\ d.disks[i].total = system.disks[i].total_space
                      /\ d.disks[i].free = system.disks[i].available_space

\* C6: in every written record cpu.usage is the arithmetic mean of the cores'
\* usages, and exactly 0.0 when there is no core.
C6_CpuMeanLaw ==
    stdout.lines >= 1 =>
        LET c == stdout.last.cpu IN
        IF c.cpus = <<>>
        THEN c.usage = F32(0)
        ELSE /\ c.usage.kind = "num"
             /\ c.usage.val * Len(c.cpus) = Sum(LineCpuUsages(c))

\* C7: in every written record net.up and net.down are the sums of the
\* interfaces' up and down, and net.interfaces holds one entry for every
\* interface the probe enumerates, in the probe's order, idle ones included.
C7_NetDeltaLaw ==
    stdout.lines >= 1 =>
        LET n == stdout.last.net IN
        /\ n.up = Sum(LineUps(n))
        /\ n.down = Sum(LineDowns(n))
        /\ RecordCurrent =>
               /\ Len(n.interfaces) = Len(system.networks)
               /\ \A i \in 1..Len(n.interfaces) :
                      /\ n.interfaces[i].name = system.networks[i].name
                      /\ n.interfaces[i].up = system.networks[i].transmitted
                      /\ n.interfaces[i].down = system.networks[i].received

C7_Witness ==
    /\ RecordCurrent
    /\ Len(system.networks) = 2
    /\ Len(stdout.last.net.interfaces) = 2
    /\ stdout.last.net.interfaces[1].up = 0
    /\ stdout.last.net.interfaces[1].down = 0
    /\ stdout.last.net.interfaces[2].up = MaxBytes
    /\ stdout.last.net.up = MaxBytes

\* C8: in loop mode, when a line is written after a refresh that kept every
\* interface and lowered none of their cumulative counters, its net.total_up
\* and net.total_down are at least those of the line written before it.
C8_MonotoneTotals ==
    [][(/\ Looping
        /\ pc = "loop_println"
        /\ stdout'.lines = stdout.lines + 1
        /\ stdout.lines >= 1
        /\ net_monotone)
       => /\ stdout'.last.net.total_up >= stdout.last.net.total_up
          /\ stdout'.last.net.total_down >= stdout.last.net.total_down]_vars

C8_Witness ==
    /\ Looping
    /\ pc = "loop_lock"
    /\ stdout.lines = 2
    /\ net_monotone
    /\ Len(system.networks) = 2
    /\ stdout.last.net.total_up = 2 * MaxBytes
    /\ stdout.last.net.total_down = MaxBytes

\* C9: in loop mode the program stops only on a failed write to standard
\* output, with a non-zero exit status; while every write succeeds it never
\* reaches an exit state.
C9_LoopStopsOnlyOnWriteFailure ==
    (Looping /\ pc = "exit") => (panic = "println" /\ exit_code # 0)

\* C10: in every written record disks.read / disks.write are, on Windows and
\* FreeBSD, the read_bytes / written_bytes of the first enumerated process (0
\* with no process) and, on every other target, the sums over all enumerated
\* processes; disks.total, disks.free and disks.used are the same whatever the
\* process list is.
C10_DiskIoPolicy ==
    RecordCurrent =>
        LET d == stdout.last.disks
            ps == system.processes
        IN
        /\ target_os \in {"windows", "freebsd"} =>
               /\ d.read = IF ps = <<>> THEN 0 ELSE ps[1].read_bytes
               /\ d.write = IF ps = <<>> THEN 0 ELSE ps[1].written_bytes
        /\ target_os \notin {"windows", "freebsd"} =>
               /\ d.read = Sum([i \in 1..Len(ps) |-> ps[i].read_bytes])
               /\ d.write = Sum([i \in 1..Len(ps) |-> ps[i].written_bytes])
        /\ \A p \in ProcessLists :
               LET e == From([system EXCEPT !.processes = p]).disks IN
               /\ e.total = d.total
               /\ e.free = d.free
               /\ e.used = d.used
               /\ e.disks = d.disks

C10_Witness ==
    /\ RecordCurrent
    /\ target_os = "freebsd"
    /\ Len(system.processes) = 2
    /\ system.processes[1].read_bytes = 0
    /\ system.processes[2].read_bytes = MaxBytes
    /\ stdout.last.disks.read = 0
    /\ stdout.last.disks.total = MaxBytes

====
